---- MODULE Spec2Model ----
(***************************************************************************)
(* The chess blunder puzzle widget of src/js/chess-puzzle.js: the loaded   *)
(* and filtered puzzle list, the display life cycle of the active puzzle,  *)
(* its setTimeout chain, the drag-and-drop handlers, the two buttons, and  *)
(* the two libraries the widget drives (chess.js 0.10.3 and chessboard.js  *)
(* 1.0.0, src/index.html lines 16-17) as far as the widget calls them.     *)
(*                                                                         *)
(* Strings the code slices (squares, UCI moves, SAN) are sequences of      *)
(* one-character strings, so that substring, concatenation and === are     *)
(* computed and not assumed.                                               *)
(*                                                                         *)
(* The rules engine is modelled on two non-adjacent files (e and h)        *)
(* carrying pawns and promoted pieces: pawn pushes, double pushes and      *)
(* promotions are generated from the position; captures, en passant,       *)
(* castling and checks cannot arise on these files.  Promoted pieces and   *)
(* the kings (off the modelled files) have no moves.                       *)
(*                                                                         *)
(* The React puzzle dialog (usePuzzleData, FabChessButton, ChessPuzzle in  *)
(* src/unnamed/part_001, part_002 and part_005) is modelled next to the    *)
(* widget, on the same rules engine, in the variables hook and component.  *)
(***************************************************************************)
EXTENDS Integers, Sequences, FiniteSets, TLC

VARIABLES
    response,           \* what fetch(PUZZLES_FILE) will settle with
    loadState,          \* "loading" | "ready" | "empty" | "error" (chessBoard.innerHTML)
    puzzles,            \* let puzzles = []
    currentPuzzleIndex, \* let currentPuzzleIndex = 0 (0-based, as in the code)
    game,               \* let game = null : the chess.js instance
    board,              \* let board = null : the chessboard.js widget
    solutionVisible,    \* solutionContainer.style.display = 'block'
    solutionMove,       \* solutionMove.innerHTML / textContent
    highlight,          \* the squares carrying class highlight-square
    turnIndicator,      \* turnIndicator.textContent
    timers,             \* pending setTimeout callbacks
    snapPending,        \* a drop animation whose onSnapEnd has not run yet
    lastReturn,         \* how the step just taken ended: what a drag handler
                        \* returned, "ignored" for a click that returned early,
                        \* "none" for everything else
    hook,               \* usePuzzleData: puzzle, isLoading, error, calls in flight
    component           \* ChessPuzzle: its state, its effect and its timeouts

vars == <<response, loadState, puzzles, currentPuzzleIndex, game, board,
          solutionVisible, solutionMove, highlight, turnIndicator, timers,
          snapPending, lastReturn, hook, component>>

---------------------------------------------------------------------------
(* Bounds of the model *)

\* longest puzzles.json collection loadPuzzles is run on
MaxPuzzles == 3
\* most setTimeout callbacks pending at once
MaxTimers == 2

(* Program constants *)

\* puzzles.filter(puzzle => puzzle.eval_change >= 500)
MinEvalChange == 500
\* setTimeout(..., 1000) : initial delay before the blunder animation
BlunderDelay == 1000
\* setTimeout(..., 1500) : delay after the animation
SolveDelay == 1500
\* setTimeout(..., 1500) : undo of an incorrect move
RevertDelay == 1500

---------------------------------------------------------------------------
(* Strings *)

Min(a, b) == IF a < b THEN a ELSE b
Max(a, b) == IF a > b THEN a ELSE b

\* String.prototype.substring(from, to) for 0 <= from <= to
Substring(s, from, to) == SubSeq(s, Min(from, Len(s)) + 1, Min(to, Len(s)))

\* String.prototype.toUpperCase on a promotion letter
ToUpper(c) ==
    CASE c = "q" -> "Q" [] c = "r" -> "R" [] c = "b" -> "B" [] c = "n" -> "N"
      [] OTHER -> c

---------------------------------------------------------------------------
(* chess.js : positions *)

Files == {"e", "h"}
RankChars == <<"1", "2", "3", "4", "5", "6", "7", "8">>
RankNum(c) == CHOOSE n \in 1..8 : RankChars[n] = c
Sq(f, n) == <<f, RankChars[n]>>
Squares == {Sq(f, n) : f \in Files, n \in 1..8}

NoPiece == <<>>
WP == <<"w", "P">>
BP == <<"b", "P">>
\* the value of an absent promotion (undefined, or '' once concatenated)
NoPromo == <<>>

\* a placement is the set of <<square, piece>> pairs of the occupied squares
EmptyBoard == {}
PieceAt(placement, s) ==
    IF \E p \in placement : p[1] = s
    THEN (CHOOSE p \in placement : p[1] = s)[2]
    ELSE NoPiece
\* the placement with square s emptied, and holding piece when it is one
Put(placement, s, piece) ==
    {p \in placement : p[1] # s}
        \cup (IF piece = NoPiece THEN {} ELSE {<<s, piece>>})

\* a position, as its FEN gives it: placement, side to move, move counters
Fen(placement, turn, ply) == [board |-> placement, turn |-> turn, ply |-> ply]

Other(c) == IF c = "w" THEN "b" ELSE "w"
Forward(c) == IF c = "w" THEN 1 ELSE -1
StartRank(c) == IF c = "w" THEN 2 ELSE 7
LastRank(c) == IF c = "w" THEN 8 ELSE 1
PromotionLetters == {"q", "r", "b", "n"}

\* SAN of a pawn push: the target square, "=X" on promotion
PawnSan(to, promo) ==
    IF promo = NoPromo THEN to ELSE to \o <<"=", ToUpper(promo[1])>>

MoveRec(c, from, to, promo) ==
    [color |-> c, from |-> from, to |-> to, promotion |-> promo,
     san |-> PawnSan(to, promo)]

\* generate_moves(): the legal moves of the side to move
PawnMoves(pos, from) ==
    LET c == pos.turn
        f == from[1]
        n == RankNum(from[2])
        one == n + Forward(c)
        two == n + 2 * Forward(c)
        free(k) == k \in 1..8 /\ PieceAt(pos.board, Sq(f, k)) = NoPiece
    IN  (IF free(one) /\ one # LastRank(c)
            THEN {MoveRec(c, from, Sq(f, one), NoPromo)} ELSE {})
        \cup
        (IF free(one) /\ one = LastRank(c)
            THEN {MoveRec(c, from, Sq(f, one), <<l>>) : l \in PromotionLetters}
            ELSE {})
        \cup
        (IF n = StartRank(c) /\ free(one) /\ free(two)
            THEN {MoveRec(c, from, Sq(f, two), NoPromo)} ELSE {})

GenerateMoves(pos) ==
    UNION {PawnMoves(pos, p[1]) :
             p \in {q \in pos.board : q[2] = <<pos.turn, "P">>}}

\* make_move(): the position after a legal move
MakeMove(pos, m) ==
    LET piece == IF m.promotion = NoPromo THEN <<m.color, "P">>
                 ELSE <<m.color, ToUpper(m.promotion[1])>>
    IN  [board |-> Put(Put(pos.board, m.from, NoPiece), m.to, piece),
         turn |-> Other(pos.turn),
         ply |-> pos.ply + 1]

---------------------------------------------------------------------------
(* chess.js : the game instance *)

NoFen == Fen(EmptyBoard, "-", 0)
NullMove == [color |-> "-", from |-> <<>>, to |-> <<>>, promotion |-> NoPromo,
             san |-> <<>>]

\* game === null
NullGame == [pos |-> NoFen, hist |-> <<>>]

\* new Chess(fen)
NewChess(fen) == [pos |-> fen, hist |-> <<>>]

\* game.fen(), game.turn()
GameFen(g) == g.pos
GameTurn(g) == g.pos.turn

\* game.game_over(): the side to move has no legal move
GameOver(g) == GenerateMoves(g.pos) = {}

\* the legal move game.move({from, to, promotion}) selects: the promotion
\* argument is compared only when the legal move is a promotion
FindMove(g, from, to, promotion) ==
    LET found == {m \in GenerateMoves(g.pos) :
                    /\ m.from = from
                    /\ m.to = to
                    /\ (m.promotion = NoPromo \/ m.promotion = promotion)}
    IN  IF found = {} THEN NullMove ELSE CHOOSE m \in found : TRUE

\* the legal move game.move(san) selects
FindSan(g, san) ==
    LET found == {m \in GenerateMoves(g.pos) : m.san = san}
    IN  IF found = {} \/ san = <<>> THEN NullMove ELSE CHOOSE m \in found : TRUE

\* variant: the move recorded in the history and not made on the board
PlayedHistoryOnly(g, m, by) ==
    IF m = NullMove THEN g
    ELSE [pos |-> g.pos,
          hist |-> Append(g.hist, [move |-> m, before |-> g.pos, by |-> by])]

\* the instance after game.move(...) resolved to move m (null: unchanged).
\* by is a history field of the entry: which code made the move ("blunder",
\* "solution", "scratch", or a move of the user as onDrop classified it,
\* "correct" or "incorrect")
Played(g, m, by) ==
    IF m = NullMove THEN g
    ELSE [pos |-> MakeMove(g.pos, m),
          hist |-> Append(g.hist, [move |-> m, before |-> g.pos, by |-> by])]

\* game.undo(): takes back the last move of the history, if any
GameUndo(g) ==
    IF g.hist = <<>> THEN g
    ELSE [pos |-> g.hist[Len(g.hist)].before,
          hist |-> SubSeq(g.hist, 1, Len(g.hist) - 1)]

\* the last move of the history (NullMove when there is none)
LastMove(g) == IF g.hist = <<>> THEN NullMove ELSE g.hist[Len(g.hist)].move

---------------------------------------------------------------------------
(* puzzles.json *)

\* the position the puzzles of the catalogue start from: Black to move
PreBlunderPlacement ==
    {<<Sq("e", 7), WP>>, <<Sq("h", 3), WP>>, <<Sq("h", 7), BP>>}
PreBlunderFen == Fen(PreBlunderPlacement, "b", 0)

Uci(from, to, promo) == from \o to \o promo

\* fen of a puzzle: the pre-blunder position with the blunder played
AfterBlunder(from, to) ==
    MakeMove(PreBlunderFen, MoveRec("b", from, to, NoPromo))

\* a JSON value of the difficulty key: a number, a string, or no key at all
JsNumber(n) == [type |-> "number", n |-> n, s |-> ""]
JsString(s) == [type |-> "string", n |-> 0, s |-> s]
JsMissing == [type |-> "undefined", n |-> 0, s |-> ""]

\* timestamp: a day number when it is an ISO date, 0 when the key is missing;
\* the difficulty key is added where it is read
Puzzle(url, fen, pre, san, uci, eval, sol, ts) ==
    [game_url |-> url, fen |-> fen, pre_blunder_fen |-> pre,
     blundered_move |-> san, blundered_move_uci |-> uci,
     player_color |-> "white", eval_change |-> eval, solution |-> sol,
     timestamp |-> ts]

\* ...h6 loses to e8=Q
PuzzleA ==
    Puzzle("A", AfterBlunder(Sq("h", 7), Sq("h", 6)), PreBlunderFen,
           Sq("h", 6), Uci(Sq("h", 7), Sq("h", 6), NoPromo), 620,
           <<Uci(Sq("e", 7), Sq("e", 8), <<"q">>)>>, 3)
\* ...h5 loses to h4; exactly at the threshold
PuzzleB ==
    Puzzle("B", AfterBlunder(Sq("h", 7), Sq("h", 5)), PreBlunderFen,
           Sq("h", 5), Uci(Sq("h", 7), Sq("h", 5), NoPromo), 500,
           <<Uci(Sq("h", 3), Sq("h", 4), NoPromo)>>, 2)
\* the newest one, below the threshold
PuzzleC ==
    Puzzle("C", AfterBlunder(Sq("h", 7), Sq("h", 5)), PreBlunderFen,
           Sq("h", 5), Uci(Sq("h", 7), Sq("h", 5), NoPromo), 499,
           <<Uci(Sq("e", 7), Sq("e", 8), <<"q">>)>>, 4)
\* no pre_blunder_fen, no timestamp, an under-promotion as the solution
PuzzleD ==
    Puzzle("D", AfterBlunder(Sq("h", 7), Sq("h", 6)), NoFen,
           Sq("h", 6), Uci(Sq("h", 7), Sq("h", 6), NoPromo), 700,
           <<Uci(Sq("e", 7), Sq("e", 8), <<"r">>)>>, 0)

\* a position of two pawns, ...h6 played, with nothing recorded as the
\* solution
BlockedFen == Fen({<<Sq("h", 4), WP>>, <<Sq("h", 7), BP>>}, "b", 0)
PuzzleE ==
    Puzzle("E",
           MakeMove(BlockedFen, MoveRec("b", Sq("h", 7), Sq("h", 6), NoPromo)),
           BlockedFen, Sq("h", 6), Uci(Sq("h", 7), Sq("h", 6), NoPromo), 540,
           <<>>, 1)

\* the same position without a pre_blunder_fen: the recorded blunder cannot
\* be played on it; h5 is the solution
PuzzleF ==
    Puzzle("F", PuzzleE.fen, NoFen, Sq("h", 6),
           Uci(Sq("h", 7), Sq("h", 6), NoPromo), 600,
           <<Uci(Sq("h", 4), Sq("h", 5), NoPromo)>>, 1)

\* what the fetch settles with: a body that response.json() parses into a
\* collection (ok), or a rejection of the fetch or of the parse; status is the
\* HTTP status of the response, 0 when there is none
FetchOk(ps) == [ok |-> TRUE, puzzles |-> ps, status |-> 200]
FetchFailed == [ok |-> FALSE, puzzles |-> <<>>, status |-> 0]
\* the fetches the widget is run on
Responses ==
    {FetchFailed, FetchOk(<<PuzzleC>>), FetchOk(<<PuzzleD>>),
     FetchOk(<<PuzzleE>>), FetchOk(<<PuzzleB, PuzzleC, PuzzleA>>)}

\* the collections loadPuzzles alone is run on: every sequence of up to
\* MaxPuzzles puzzles over these timestamps and evaluation changes
LoadCatalogue ==
    {Puzzle("L", PuzzleA.fen, PreBlunderFen, PuzzleA.blundered_move,
            PuzzleA.blundered_move_uci, ev, PuzzleA.solution, ts) :
        ev \in {499, 500, 620}, ts \in 0..2}

SeqsUpTo(S, n) == UNION {[1..k -> S] : k \in 0..n}

LoadResponses == {FetchOk(ps) : ps \in SeqsUpTo(LoadCatalogue, MaxPuzzles)}

---------------------------------------------------------------------------
(* loadPuzzles : sort and filter *)

NaN == [nan |-> TRUE, v |-> 0]
Num(n) == [nan |-> FALSE, v |-> n]

\* new Date(timestamp || '') as a number: NaN for an Invalid Date
DateValue(ts) == IF ts > 0 THEN Num(ts) ELSE NaN

\* x - y on numbers
Minus(x, y) == IF x.nan \/ y.nan THEN NaN ELSE Num(x.v - y.v)

\* (a, b) => dateB - dateA
CompareFn(a, b) == Minus(DateValue(b.timestamp), DateValue(a.timestamp))

\* SortCompare of Array.prototype.sort: a NaN from the comparator counts as +0
SortCompare(a, b) ==
    LET v == CompareFn(a, b) IN IF v.nan THEN 0 ELSE v.v

\* Array.prototype.sort(comparefn).  When the comparator is consistent the
\* result is the stable sort.  When it is not (a NaN timestamp compares equal
\* to everything) the order is implementation-defined: every arrangement a
\* merge or insertion sort can leave, where no neighbour pair is reported out
\* of order and neighbours reported equal keep their input order.
SortOutcomes(arr) ==
    LET n == Len(arr)
        ok(p) == \A i \in 1..(n - 1) :
                    LET c == SortCompare(arr[p[i]], arr[p[i + 1]])
                    IN  c < 0 \/ (c = 0 /\ p[i] < p[i + 1])
    IN  {[i \in 1..n |-> arr[p[i]]] : p \in {q \in Permutations(1..n) : ok(q)}}

\* variant: the filter with the 300 of the explanation text as its threshold
KeepPuzzleLow(p) == p.eval_change >= 300

\* variant: a filter that keeps every puzzle
KeepPuzzleAll(p) == p.eval_change >= 0

\* variant: the filter with > for >=
KeepPuzzleStrict(p) == p.eval_change > MinEvalChange

\* puzzle => puzzle.eval_change >= 500
KeepPuzzle(p) == p.eval_change >= MinEvalChange

\* Array.prototype.filter
RECURSIVE Filter(_)
Filter(arr) ==
    IF arr = <<>> THEN <<>>
    ELSE IF KeepPuzzle(Head(arr)) THEN <<Head(arr)>> \o Filter(Tail(arr))
         ELSE Filter(Tail(arr))

\* the lists loadPuzzles can leave in puzzles for a fetched collection
ActiveLists(data) == {Filter(s) : s \in SortOutcomes(data)}

---------------------------------------------------------------------------
(* chessboard.js : the widget *)

\* board === null
NullBoard == [exists |-> FALSE, position |-> EmptyBoard, draggable |-> FALSE]

\* Chessboard('chess-board', {position, draggable, ...})
Chessboard(fen, draggable) ==
    [exists |-> TRUE, position |-> fen.board, draggable |-> draggable]

\* board.position(fen)
SetPosition(b, fen) == [b EXCEPT !.position = fen.board]

\* the widget's own handling of an accepted drop: the dragged piece, as
\* displayed, is put on the target square
DropPiece(b, source, target) ==
    [b EXCEPT !.position =
        Put(Put(b.position, source, NoPiece), target, PieceAt(b.position, source))]

---------------------------------------------------------------------------
(* The page *)

\* undefined, where the code reads a string
Undefined == <<"undefined">>

\* the text of #solution-move
InitialText == [kind |-> "initial", san |-> <<>>, answer |-> <<>>]
PlainText(t) == [kind |-> "text", san |-> <<>>, answer |-> t]
CorrectText(san) == [kind |-> "correct", san |-> san, answer |-> <<>>]
IncorrectText(san, answer) == [kind |-> "incorrect", san |-> san, answer |-> answer]

\* variant: updateTurnIndicator leaving the text as it is
TurnTextStale(g, old) == old

\* updateTurnIndicator()
TurnText(g, old) ==
    IF g = NullGame THEN old
    ELSE IF GameTurn(g) = "w" THEN "White" ELSE "Black"

\* highlightSquares(source, target): the squares of the board that get the class
Highlighted(source, target) == {source, target} \cap Squares

\* currentPuzzle.solution[0]
FirstSolution(p) == IF p.solution = <<>> THEN Undefined ELSE p.solution[1]

\* the promotion letter of a UCI string, undefined when it has none
UciPromotion(uci) == IF Len(uci) > 4 THEN Substring(uci, 4, 5) ELSE NoPromo

\* uciToSan(uci): the text it returns; the move it makes on game is undone
\* before it returns
UciToSan(g, uci) ==
    IF g = NullGame \/ uci = <<>> \/ uci = Undefined THEN uci
    ELSE LET m == FindMove(g, Substring(uci, 0, 2), Substring(uci, 2, 4),
                           UciPromotion(uci))
         IN  IF m # NullMove THEN m.san ELSE uci

\* variant: uciToSan without its game.undo()
AfterUciToSanNoUndo(g, uci) ==
    IF g = NullGame \/ uci = <<>> \/ uci = Undefined THEN g
    ELSE Played(g, FindMove(g, Substring(uci, 0, 2), Substring(uci, 2, 4),
                            UciPromotion(uci)), "scratch")

\* game after uciToSan(uci): move, then undo when the move was made
AfterUciToSan(g, uci) ==
    IF g = NullGame \/ uci = <<>> \/ uci = Undefined THEN g
    ELSE LET m == FindMove(g, Substring(uci, 0, 2), Substring(uci, 2, 4),
                           UciPromotion(uci))
         IN  IF m # NullMove THEN GameUndo(Played(g, m, "scratch")) ELSE g

---------------------------------------------------------------------------
(* Timers.  A pending callback carries its delay and its age in units of    *)
(* 500 ms.  The sequence is ordered by the fractional part of the age,     *)
(* largest first, so its head is the next callback to complete a unit: a   *)
(* new callback is appended, and time passes by the head completing a unit *)
(* and either firing or moving to the end.  own and before are history     *)
(* fields: whether the callback was scheduled since the last displayPuzzle,*)
(* and the engine position before the move a revert callback is for.       *)

Units(ms) == ms \div 500

Timer(kind, ms, puzzle, own, before) ==
    [kind |-> kind, delay |-> Units(ms), age |-> 0, puzzle |-> puzzle,
     own |-> own, before |-> before]

Disown(ts) == [i \in 1..Len(ts) |-> [ts[i] EXCEPT !.own = FALSE]]

Due(ts) == ts # <<>> /\ Head(ts).age + 1 = Head(ts).delay

---------------------------------------------------------------------------
(* Handlers *)

\* variant: the clamp with puzzles.length - 2 as its upper end
ClampIndexShort(index, len) == Max(0, Min(index, len - 2))

\* Math.max(0, Math.min(index, puzzles.length - 1))
ClampIndex(index, len) == Max(0, Min(index, len - 1))

\* currentPuzzle.pre_blunder_fen || currentPuzzle.fen
StartFen(p) == IF p.pre_blunder_fen # NoFen THEN p.pre_blunder_fen ELSE p.fen

\* variant: displayPuzzle leaving the solution panel as it finds it
DisplayPuzzleKeepPanel(ps, index) ==
    IF Len(ps) = 0
    THEN UNCHANGED <<currentPuzzleIndex, game, board, solutionVisible,
                     highlight, turnIndicator, timers>>
    ELSE LET idx == ClampIndex(index, Len(ps))
             p == ps[idx + 1]
             g == NewChess(StartFen(p))
         IN  /\ currentPuzzleIndex' = idx
             /\ solutionVisible' = solutionVisible
             /\ highlight' = {}
             /\ game' = g
             /\ turnIndicator' = TurnText(g, turnIndicator)
             /\ board' = Chessboard(GameFen(g), FALSE)
             /\ timers' = Append(Disown(timers),
                                 Timer("blunder", BlunderDelay, p, TRUE, NoFen))

\* displayPuzzle(index), with ps the value of puzzles when it is called
DisplayPuzzle(ps, index) ==
    IF Len(ps) = 0
    THEN UNCHANGED <<currentPuzzleIndex, game, board, solutionVisible,
                     highlight, turnIndicator, timers>>
    ELSE LET idx == ClampIndex(index, Len(ps))
             p == ps[idx + 1]
             g == NewChess(StartFen(p))
         IN  /\ currentPuzzleIndex' = idx
             /\ solutionVisible' = FALSE
             /\ highlight' = {}
             /\ game' = g
             /\ turnIndicator' = TurnText(g, turnIndicator)
             /\ board' = Chessboard(GameFen(g), FALSE)
             /\ timers' = Append(Disown(timers),
                                 Timer("blunder", BlunderDelay, p, TRUE, NoFen))

\* loadPuzzles(): the fetch settles
LoadPuzzles ==
    /\ loadState = "loading"
    /\ lastReturn' = "none"
    /\ UNCHANGED <<hook, component>>
    /\ UNCHANGED <<response, solutionMove, snapPending>>
    /\ IF response.ok
       THEN \E sorted \in SortOutcomes(response.puzzles) :
              LET ps == Filter(sorted)
              IN  /\ puzzles' = ps
                  /\ loadState' = IF Len(ps) > 0 THEN "ready" ELSE "empty"
                  /\ DisplayPuzzle(ps, 0)
       ELSE /\ loadState' = "error"
            /\ UNCHANGED <<puzzles, currentPuzzleIndex, game, board,
                           solutionVisible, highlight, turnIndicator, timers>>

\* variant: the draw taken as it is from a displayed index above 0
RandomIndexNoSkip(len, current, r) ==
    IF len > 1
    THEN IF current = 0 THEN r + 1 ELSE r
    ELSE 0

\* variant: the draw taken as it is from index 0
RandomIndexFromFirst(len, current, r) ==
    IF len > 1
    THEN IF current = 0 THEN r
         ELSE IF r >= current THEN r + 1 ELSE r
    ELSE 0

\* the index the 'try another' handler picks, r being
\* Math.floor(Math.random() * (puzzles.length - 1))
RandomIndex(len, current, r) ==
    IF len > 1
    THEN IF current = 0 THEN r + 1
         ELSE IF r >= current THEN r + 1 ELSE r
    ELSE 0

\* tryAnotherBtn click
TryAnother ==
    /\ Len(timers) < MaxTimers
    /\ \E r \in 0..Max(0, Len(puzzles) - 2) :
          DisplayPuzzle(puzzles, RandomIndex(Len(puzzles), currentPuzzleIndex, r))
    /\ lastReturn' = IF Len(puzzles) = 0 THEN "ignored" ELSE "none"
    /\ UNCHANGED <<hook, component>>
    /\ UNCHANGED <<response, loadState, puzzles, solutionMove, snapPending>>

\* variant: the guard without its test of the solution array
NoSolutionMissingOnly(ps, index) == index >= Len(ps)

\* !currentPuzzle || !currentPuzzle.solution || !currentPuzzle.solution.length
NoSolution(ps, index) == index >= Len(ps) \/ ps[index + 1].solution = <<>>

\* the integers displayPuzzle is called with: below, in and above the range
\* of every list
IndexInputs == (0 - 2)..(MaxPuzzles + 1)

\* a call displayPuzzle(index)
DisplayAt(index) ==
    /\ Len(timers) < MaxTimers
    /\ DisplayPuzzle(puzzles, index)
    /\ lastReturn' = IF Len(puzzles) = 0 THEN "ignored" ELSE "none"
    /\ UNCHANGED <<hook, component>>
    /\ UNCHANGED <<response, loadState, puzzles, solutionMove, snapPending>>

\* displayPuzzle called with any integer
DisplayIndex == \E index \in IndexInputs : DisplayAt(index)

\* what the handlers and callbacks show and play on: the engine, the widget
\* and the elements of the page
PageState ==
    [game |-> game, board |-> board, highlight |-> highlight,
     solutionVisible |-> solutionVisible, solutionMove |-> solutionMove,
     turnIndicator |-> turnIndicator]

\* the page after the showSolutionBtn click handler ran on page st
AfterShowSolution(ps, index, st) ==
    IF NoSolution(ps, index) THEN st
    ELSE LET uci == FirstSolution(ps[index + 1])
             source == Substring(uci, 0, 2)
             target == Substring(uci, 2, 4)
             promotion == UciPromotion(uci)
             m == FindMove(st.game, source, target,
                           IF promotion # NoPromo THEN promotion ELSE <<"q">>)
             g == Played(st.game, m, "solution")
         IN  IF m # NullMove
             THEN [game |-> g,
                   board |-> SetPosition(st.board, GameFen(g)),
                   highlight |-> Highlighted(source, target),
                   solutionVisible |-> TRUE,
                   solutionMove |-> CorrectText(m.san),
                   turnIndicator |-> TurnText(g, st.turnIndicator)]
             ELSE [st EXCEPT !.solutionVisible = TRUE]

\* showSolutionBtn click
ShowSolution ==
    /\ UNCHANGED <<hook, component>>
    /\ UNCHANGED <<response, loadState, puzzles, currentPuzzleIndex, timers,
                   snapPending>>
    /\ lastReturn' = IF NoSolution(puzzles, currentPuzzleIndex)
                     THEN "ignored" ELSE "none"
    /\ \E st \in {AfterShowSolution(puzzles, currentPuzzleIndex, PageState)} :
          /\ game' = st.game
          /\ board' = st.board
          /\ highlight' = st.highlight
          /\ solutionVisible' = st.solutionVisible
          /\ solutionMove' = st.solutionMove
          /\ turnIndicator' = st.turnIndicator

\* onDragStart(source, piece) returns false
DragRefused(g, piece) ==
    \/ GameOver(g)
    \/ (GameTurn(g) = "w" /\ piece[1] = "b")
    \/ (GameTurn(g) = "b" /\ piece[1] = "w")

\* a piece the widget lets the user pick up
CanPickUp(source) ==
    /\ board.exists
    /\ board.draggable
    /\ PieceAt(board.position, source) # NoPiece

\* the user picks up a piece and onDragStart refuses the drag
DragStart ==
    /\ \E source \in {s \in Squares : CanPickUp(s)} :
          DragRefused(game, PieceAt(board.position, source))
    /\ lastReturn' = "false"
    /\ UNCHANGED <<hook, component>>
    /\ UNCHANGED <<response, loadState, puzzles, currentPuzzleIndex, game,
                   board, solutionVisible, solutionMove, highlight,
                   turnIndicator, timers, snapPending>>

\* source + target + (move.promotion || '')
UserMoveUci(source, target, m) == source \o target \o m.promotion

\* variant: the comparison without the promotion letter
IsCorrectSquaresOnly(source, target, m, p) ==
    source \o target = Substring(FirstSolution(p), 0, 4)

\* userMoveUci === currentPuzzle.solution[0]
IsCorrect(source, target, m, p) == UserMoveUci(source, target, m) = FirstSolution(p)

\* the move onDrop asks the engine for: promotion is always 'q'
DropMove(g, source, target) == FindMove(g, source, target, <<"q">>)

\* onDrop(source, target) from the highlighting on: the engine made move m
OnDropAccepted(source, target, m) ==
    LET p == puzzles[currentPuzzleIndex + 1]
        correct == IsCorrect(source, target, m, p)
        g == Played(game, m, IF correct THEN "correct" ELSE "incorrect")
    IN  /\ lastReturn' = "dropped"
        /\ highlight' = Highlighted(source, target)
        /\ turnIndicator' = TurnText(g, turnIndicator)
        /\ solutionVisible' = TRUE
        /\ board' = DropPiece(board, source, target)
        /\ snapPending' = TRUE
        /\ IF correct
           THEN /\ solutionMove' = CorrectText(m.san)
                /\ game' = g
                /\ timers' = timers
           ELSE /\ Len(timers) < MaxTimers
                /\ game' = AfterUciToSan(g, FirstSolution(p))
                /\ solutionMove' =
                       IncorrectText(m.san, UciToSan(g, FirstSolution(p)))
                /\ timers' = Append(timers,
                       Timer("revert", RevertDelay, p, TRUE, GameFen(game)))

\* variant: onDrop highlighting the squares before it tests the move
OnDropLateCheck(source, target) ==
    LET m == DropMove(game, source, target)
    IN  IF m = NullMove
        THEN /\ lastReturn' = "snapback"
             /\ highlight' = Highlighted(source, target)
             /\ UNCHANGED <<game, board, solutionVisible, solutionMove,
                            turnIndicator, timers, snapPending>>
        ELSE OnDropAccepted(source, target, m)

\* onDrop(source, target), after a drag onDragStart let through
OnDrop(source, target) ==
    LET m == DropMove(game, source, target)
    IN  IF m = NullMove
        THEN /\ lastReturn' = "snapback"
             /\ UNCHANGED <<game, board, solutionVisible, solutionMove,
                            highlight, turnIndicator, timers, snapPending>>
        ELSE OnDropAccepted(source, target, m)

\* the squares a piece picked up on source is dropped on: every square the
\* engine accepts, and one of those it refuses (onDrop's snapback branch
\* reads neither square)
DropSquares(source) ==
    LET refused == {t \in Squares : DropMove(game, source, t) = NullMove}
    IN  (Squares \ refused)
            \cup (IF refused = {} THEN {} ELSE {CHOOSE t \in refused : TRUE})

\* the user drags a piece and drops it on a square
Drop ==
    /\ \E source \in {s \in Squares : CanPickUp(s)} :
          /\ ~DragRefused(game, PieceAt(board.position, source))
          /\ \E target \in DropSquares(source) : OnDrop(source, target)
    /\ UNCHANGED <<hook, component>>
    /\ UNCHANGED <<response, loadState, puzzles, currentPuzzleIndex>>

\* onSnapEnd()
OnSnapEnd ==
    /\ snapPending
    /\ snapPending' = FALSE
    /\ board' = SetPosition(board, GameFen(game))
    /\ lastReturn' = "none"
    /\ UNCHANGED <<hook, component>>
    /\ UNCHANGED <<response, loadState, puzzles, currentPuzzleIndex, game,
                   solutionVisible, solutionMove, highlight, turnIndicator,
                   timers>>

---------------------------------------------------------------------------
(* Timer callbacks *)

\* 500 ms pass for the head callback, and it is not due yet
Tick ==
    /\ timers # <<>>
    /\ ~Due(timers)
    /\ timers' = Append(Tail(timers), [Head(timers) EXCEPT !.age = @ + 1])
    /\ lastReturn' = "none"
    /\ UNCHANGED <<hook, component>>
    /\ UNCHANGED <<response, loadState, puzzles, currentPuzzleIndex, game,
                   board, solutionVisible, solutionMove, highlight,
                   turnIndicator, snapPending>>

\* the move the first callback of displayPuzzle makes for puzzle p: by UCI
\* when blundered_move_uci is there, by SAN otherwise (chess.js 0.10.3
\* returns null and never throws, so the catch branch is not taken)
BlunderMove(g, p) ==
    IF p.blundered_move_uci # <<>>
    THEN FindMove(g, Substring(p.blundered_move_uci, 0, 2),
                  Substring(p.blundered_move_uci, 2, 4),
                  UciPromotion(p.blundered_move_uci))
    ELSE FindSan(g, p.blundered_move)

\* variant: the failure branch leaving the widget as displayPuzzle built it
FailureBoardLocked(g) == Chessboard(GameFen(g), FALSE)

\* the widget the failure branch builds: game.fen(), draggable: true
FailureBoard(g) == Chessboard(GameFen(g), TRUE)

\* setTimeout(() => {...}, 1000) of displayPuzzle
BlunderTimer ==
    /\ Due(timers)
    /\ Head(timers).kind = "blunder"
    /\ LET t == Head(timers)
           m == BlunderMove(game, t.puzzle)
           g == Played(game, m, "blunder")
       IN  IF m # NullMove
           THEN /\ game' = g
                /\ highlight' = Highlighted(m.from, m.to)
                /\ board' = SetPosition(board, GameFen(g))
                /\ turnIndicator' = TurnText(g, turnIndicator)
                /\ timers' = Append(Tail(timers),
                       Timer("await", SolveDelay, t.puzzle, t.own, NoFen))
           ELSE /\ board' = FailureBoard(game)
                /\ highlight' = {}
                /\ timers' = Tail(timers)
                /\ UNCHANGED <<game, turnIndicator>>
    /\ lastReturn' = "none"
    /\ UNCHANGED <<hook, component>>
    /\ UNCHANGED <<response, loadState, puzzles, currentPuzzleIndex,
                   solutionVisible, solutionMove, snapPending>>

\* the inner setTimeout(() => {...}, 1500) of displayPuzzle
AwaitTimer ==
    /\ Due(timers)
    /\ Head(timers).kind = "await"
    /\ LET p == Head(timers).puzzle
       IN  /\ board' = Chessboard(p.fen, TRUE)
           /\ highlight' = {}
           /\ solutionMove' = PlainText(UciToSan(game, FirstSolution(p)))
           /\ game' = AfterUciToSan(game, FirstSolution(p))
    /\ timers' = Tail(timers)
    /\ lastReturn' = "none"
    /\ UNCHANGED <<hook, component>>
    /\ UNCHANGED <<response, loadState, puzzles, currentPuzzleIndex,
                   solutionVisible, turnIndicator, snapPending>>

\* setTimeout(() => {...}, 1500) of onDrop
RevertTimer ==
    /\ Due(timers)
    /\ Head(timers).kind = "revert"
    /\ LET g == GameUndo(game)
       IN  /\ game' = g
           /\ board' = SetPosition(board, GameFen(g))
           /\ turnIndicator' = TurnText(g, turnIndicator)
    /\ highlight' = {}
    /\ timers' = Tail(timers)
    /\ lastReturn' = "none"
    /\ UNCHANGED <<hook, component>>
    /\ UNCHANGED <<response, loadState, puzzles, currentPuzzleIndex,
                   solutionVisible, solutionMove, snapPending>>

---------------------------------------------------------------------------
(* The React dialog: usePuzzleData (part_001), FabChessButton (part_002)   *)
(* and ChessPuzzle (part_005).  A step is a state update together with the *)
(* render and the effects it causes.  The dialog content is modelled while *)
(* it is mounted.                                                          *)

\* fetchPuzzle calls that can be in flight at once
MaxInFlight == 2

\* an object of the PuzzleData interface; solution_moves_san, which
\* onPieceDrop reads, is <<>> when the backend sends none
PuzzleData(id, before, after, sans) ==
    [game_id |-> id, fen_before_user_blunder |-> before,
     fen_after_user_blunder |-> after, player_color_to_move |-> "white",
     solution_moves_san |-> sans]

\* puzzle === null
NullPuzzleData == PuzzleData("", NoFen, NoFen, <<>>)

\* what GET /puzzle answers with: ...h6 losing to e8=Q; the two pawns with
\* ...h6 losing to h5; the same two FENs from another game, with no solution
\* list; a puzzle whose second FEN is a string that is not a FEN
PuzzleCatalogue ==
    {PuzzleData("A", PreBlunderFen, AfterBlunder(Sq("h", 7), Sq("h", 6)),
                <<PawnSan(Sq("e", 8), <<"q">>)>>),
     PuzzleData("B", BlockedFen, PuzzleE.fen, <<Sq("h", 5)>>),
     PuzzleData("C", BlockedFen, PuzzleE.fen, <<>>),
     PuzzleData("X", BlockedFen, Fen(EmptyBoard, "?", 0), <<Sq("h", 5)>>)}

\* error === null
NoError == ""

\* the hook before the first fetchPuzzle
HookInit ==
    [puzzle |-> NullPuzzleData, isLoading |-> FALSE, error |-> NoError,
     inFlight |-> 0]

\* the component after its first render, with puzzleData null.  timeouts are
\* the pending setTimeout callbacks of the effect, each with the puzzleData
\* its closure holds and whether that closure is the one the next cleanup
\* belongs to; flashes counts the pending callbacks of the 500 ms flash.
\* gameFrom and cleared are history fields: the FEN the game instance was
\* constructed from, and whether the last cleanup cancelled a pending callback
ComponentInit ==
    [currentFen |-> NoFen, game |-> NullGame, gameFrom |-> NoFen,
     isAnimatingBlunder |-> FALSE, isIncorrectMoveFlash |-> FALSE,
     deps |-> <<NoFen, NoFen>>, timeouts |-> {}, flashes |-> 0,
     cleared |-> FALSE]

\* the dependency array of the effect
Deps(d) == <<d.fen_before_user_blunder, d.fen_after_user_blunder>>

Timeout(kind, d, current) == [kind |-> kind, data |-> d, current |-> current]

\* variant: a cleanup that clears animationTimeout only
ClearAnimationOnly(ts) == {t \in ts : ~(t.current /\ t.kind = "animation")}

\* the cleanup of the effect: clearTimeout of the closure's two handles, read
\* when the cleanup runs
ClearTimeouts(ts) == {t \in ts : ~t.current}

\* callbacks a cleanup left pending belong to no later cleanup
Abandon(ts) == {[t EXCEPT !.current = FALSE] : t \in ts}

\* the component c after a render with puzzleData d: the effect runs, after
\* the cleanup of its previous run, when one of the two FENs changed
UseEffect(c, d) ==
    IF Deps(d) = c.deps THEN c
    ELSE LET left == ClearTimeouts(c.timeouts)
         IN  IF d # NullPuzzleData
             THEN [c EXCEPT !.currentFen = d.fen_before_user_blunder,
                            !.isAnimatingBlunder = TRUE,
                            !.game = NullGame,
                            !.gameFrom = NoFen,
                            !.deps = Deps(d),
                            !.timeouts = Abandon(left)
                                \cup {Timeout("animation", d, TRUE)},
                            !.cleared = (left # c.timeouts)]
             ELSE [c EXCEPT !.currentFen = NoFen,
                            !.isAnimatingBlunder = FALSE,
                            !.game = NullGame,
                            !.gameFrom = NoFen,
                            !.deps = Deps(d),
                            !.timeouts = Abandon(left),
                            !.cleared = (left # c.timeouts)]

\* new Chess(fen) inside try/catch: the instance, or null when the
\* constructor throws.  For a string that is not a FEN the outcome depends on
\* the chess.js release the build resolves: 1.x throws, 0.x returns an
\* instance with an empty board and White to move
ChessOutcomes(fen) ==
    IF fen.turn \in {"w", "b"} THEN {NewChess(fen)}
    ELSE {NullGame, NewChess(Fen(EmptyBoard, "w", 0))}

\* arePiecesDraggable={!isAnimatingBlunder && !!game}
ArePiecesDraggable(c) == ~c.isAnimatingBlunder /\ c.game # NullGame

\* the render reaches <Chessboard>
BoardRendered ==
    /\ ~hook.isLoading
    /\ hook.error = NoError
    /\ hook.puzzle # NullPuzzleData
    /\ component.currentFen # NoFen

\* setIsIncorrectMoveFlash(true) and the setTimeout that ends the flash
Flash(c) == [c EXCEPT !.isIncorrectMoveFlash = TRUE, !.flashes = @ + 1]

\* the component c after onPieceDrop(source, target, piece), puzzleData d
OnPieceDrop(c, d, source, target, piece) ==
    IF \/ c.game = NullGame
       \/ c.isAnimatingBlunder
       \/ d = NullPuzzleData
       \/ d.solution_moves_san = <<>>
    THEN c
    ELSE IF (IF piece[1] = "w" THEN "white" ELSE "black") # d.player_color_to_move
    THEN c
    ELSE LET m == FindMove(c.game, source, target, <<"q">>)
         IN  IF m = NullMove THEN Flash(c)
             ELSE IF m.san = d.solution_moves_san[1]
             THEN [c EXCEPT !.game = Played(c.game, m, "correct"),
                            !.currentFen = MakeMove(c.game.pos, m)]
             ELSE Flash([c EXCEPT !.game = NewChess(c.game.pos)])

\* index.html, which has the widget, has no dialog
NoDialog == hook = "none" /\ component = "none"

WidgetVars ==
    <<response, loadState, puzzles, currentPuzzleIndex, game, board,
      solutionVisible, solutionMove, highlight, turnIndicator, timers,
      snapPending, lastReturn>>

\* the dialog opens: fetchPuzzle() up to its await
FetchPuzzle ==
    /\ hook.inFlight < MaxInFlight
    /\ hook' = [puzzle |-> NullPuzzleData, isLoading |-> TRUE,
                error |-> NoError, inFlight |-> hook.inFlight + 1]
    /\ component' = UseEffect(component, NullPuzzleData)
    /\ UNCHANGED WidgetVars

\* a fetch settles with a 2xx response whose body parses: setPuzzle(data),
\* then the finally block
FetchResolved ==
    /\ hook.inFlight > 0
    /\ \E d \in PuzzleCatalogue :
          /\ hook' = [hook EXCEPT !.puzzle = d, !.isLoading = FALSE,
                                  !.inFlight = @ - 1]
          /\ component' = UseEffect(component, d)
    /\ UNCHANGED WidgetVars

\* a fetch rejects, answers with another status, or its body does not parse:
\* setError(err), then the finally block
FetchRejected ==
    /\ hook.inFlight > 0
    /\ hook' = [hook EXCEPT !.error = "Failed to fetch puzzle",
                            !.isLoading = FALSE, !.inFlight = @ - 1]
    /\ UNCHANGED component
    /\ UNCHANGED WidgetVars

\* the callback of animationTimeout
AnimationTimeout ==
    /\ \E t \in component.timeouts :
          /\ t.kind = "animation"
          /\ component' =
                [component EXCEPT
                    !.currentFen = t.data.fen_after_user_blunder,
                    !.isAnimatingBlunder = FALSE,
                    !.timeouts = (@ \ {t})
                        \cup {Timeout("init", t.data, t.current)}]
    /\ UNCHANGED hook
    /\ UNCHANGED WidgetVars

\* the callback of gameInitializationTimeout
GameInitializationTimeout ==
    /\ \E t \in component.timeouts :
          /\ t.kind = "init"
          /\ \E g \in ChessOutcomes(t.data.fen_after_user_blunder) :
                component' =
                    [component EXCEPT
                        !.game = g,
                        !.gameFrom = IF g = NullGame THEN NoFen
                                     ELSE t.data.fen_after_user_blunder,
                        !.timeouts = @ \ {t}]
    /\ UNCHANGED hook
    /\ UNCHANGED WidgetVars

\* the user drops a piece of the rendered board on a square
PieceDrop ==
    /\ BoardRendered
    /\ ArePiecesDraggable(component)
    /\ \E source \in Squares, target \in Squares :
          /\ PieceAt(component.currentFen.board, source) # NoPiece
          /\ component' =
                OnPieceDrop(component, hook.puzzle, source, target,
                            PieceAt(component.currentFen.board, source))
          /\ component'.flashes <= MaxTimers
    /\ UNCHANGED hook
    /\ UNCHANGED WidgetVars

\* setTimeout(() => setIsIncorrectMoveFlash(false), 500)
FlashTimeout ==
    /\ component.flashes > 0
    /\ component' = [component EXCEPT !.isIncorrectMoveFlash = FALSE,
                                      !.flashes = @ - 1]
    /\ UNCHANGED hook
    /\ UNCHANGED WidgetVars

---------------------------------------------------------------------------
(* Specification *)

Init ==
    /\ response \in Responses
    /\ loadState = "loading"
    /\ puzzles = <<>>
    /\ currentPuzzleIndex = 0
    /\ game = NullGame
    /\ board = NullBoard
    /\ solutionVisible = FALSE
    /\ solutionMove = InitialText
    /\ highlight = {}
    /\ turnIndicator = "White"
    /\ timers = <<>>
    /\ snapPending = FALSE
    /\ lastReturn = "none"
    /\ NoDialog

Next ==
    \/ LoadPuzzles
    \/ TryAnother
    \/ ShowSolution
    \/ DragStart
    \/ Drop
    \/ OnSnapEnd
    \/ Tick
    \/ BlunderTimer
    \/ AwaitTimer
    \/ RevertTimer

Spec == Init /\ [][Next]_vars

\* the page with timers that fire: a pending callback is run once its delay
\* has passed, whatever else happens on the page
TimerStep == Tick \/ BlunderTimer \/ AwaitTimer \/ RevertTimer

Fairness == WF_vars(TimerStep)

\* the page on the two-pawn position: a puzzle whose blunder is replayed, a
\* puzzle whose blunder cannot be played, and both in one collection
LiveResponses ==
    {FetchOk(<<PuzzleE>>), FetchOk(<<PuzzleF>>), FetchOk(<<PuzzleE, PuzzleF>>)}

InitLive ==
    /\ response \in LiveResponses
    /\ loadState = "loading"
    /\ puzzles = <<>>
    /\ currentPuzzleIndex = 0
    /\ game = NullGame
    /\ board = NullBoard
    /\ solutionVisible = FALSE
    /\ solutionMove = InitialText
    /\ highlight = {}
    /\ turnIndicator = "White"
    /\ timers = <<>>
    /\ snapPending = FALSE
    /\ lastReturn = "none"
    /\ NoDialog

SpecLive == InitLive /\ [][Next]_vars /\ Fairness

\* loadPuzzles on its own, over every collection of the load catalogue
InitLoad ==
    /\ response \in LoadResponses
    /\ loadState = "loading"
    /\ puzzles = <<>>
    /\ currentPuzzleIndex = 0
    /\ game = NullGame
    /\ board = NullBoard
    /\ solutionVisible = FALSE
    /\ solutionMove = InitialText
    /\ highlight = {}
    /\ turnIndicator = "White"
    /\ timers = <<>>
    /\ snapPending = FALSE
    /\ lastReturn = "none"
    /\ NoDialog

SpecLoad == InitLoad /\ [][LoadPuzzles]_vars

\* the collections the choice of another puzzle is run on: every sequence of
\* up to MaxPuzzles puzzles, each of them PuzzleA or PuzzleB
AnotherResponses ==
    {FetchOk(ps) : ps \in SeqsUpTo({PuzzleA, PuzzleB}, MaxPuzzles)}

\* the page with a user who only clicks 'try another'
InitAnother ==
    /\ response \in AnotherResponses
    /\ loadState = "loading"
    /\ puzzles = <<>>
    /\ currentPuzzleIndex = 0
    /\ game = NullGame
    /\ board = NullBoard
    /\ solutionVisible = FALSE
    /\ solutionMove = InitialText
    /\ highlight = {}
    /\ turnIndicator = "White"
    /\ timers = <<>>
    /\ snapPending = FALSE
    /\ lastReturn = "none"
    /\ NoDialog

NextAnother ==
    \/ LoadPuzzles
    \/ TryAnother
    \/ Tick
    \/ BlunderTimer
    \/ AwaitTimer

SpecAnother == InitAnother /\ [][NextAnother]_vars

\* displayPuzzle run on every index, over the same collections
NextDisplay ==
    \/ LoadPuzzles
    \/ DisplayIndex
    \/ Tick
    \/ BlunderTimer
    \/ AwaitTimer

SpecDisplay == InitAnother /\ [][NextDisplay]_vars

---------------------------------------------------------------------------
(* Vocabulary of the properties *)

\* displayPuzzle has shown a puzzle
Displayed == board.exists

ActivePuzzle == puzzles[currentPuzzleIndex + 1]

\* a callback of the active puzzle's own displayPuzzle call is pending
OwnPending(kind) ==
    \E i \in DOMAIN timers : timers[i].own /\ timers[i].kind = kind

\* ShowingPreBlunderPosition or AnimatingBlunder
BeforeUserTurn == OwnPending("blunder") \/ OwnPending("await")

\* the side to move in the post-blunder position
SolverColor(p) == p.fen.turn

Loaded == loadState \in {"ready", "empty"}

Count(seq, x) == Cardinality({i \in DOMAIN seq : seq[i] = x})

\* a step in which onDrop accepted the user's move
AcceptedDrop == lastReturn' = "dropped"

---------------------------------------------------------------------------
(* Properties *)

\* C1: every puzzle displayPuzzle has made active (the displayed one, and
\* the ones pending callbacks were scheduled for) has eval_change >= 500 and
\* is an element of the active list, which is a sorted and filtered
\* arrangement of the loaded collection; the displayed index is in range.
C1_DisplayedPuzzleEligible ==
    Displayed =>
        /\ loadState = "ready"
        /\ currentPuzzleIndex \in 0..(Len(puzzles) - 1)
        /\ ActivePuzzle.eval_change >= 500
        /\ \A i \in DOMAIN timers :
              /\ timers[i].puzzle.eval_change >= 500
              /\ \E k \in DOMAIN puzzles : puzzles[k] = timers[i].puzzle
        /\ \A k \in DOMAIN puzzles :
              \E j \in DOMAIN response.puzzles : response.puzzles[j] = puzzles[k]
        /\ puzzles \in ActiveLists(response.puzzles)

\* the second puzzle of a list that lost a puzzle to the filter is displayed,
\* after a move of the user
C1_Witness ==
    /\ Displayed
    /\ Len(puzzles) < Len(response.puzzles)
    /\ currentPuzzleIndex = 1
    /\ solutionVisible
    /\ \E i \in DOMAIN game.hist : game.hist[i].by \in {"correct", "incorrect"}

C3_SortedNewestFirst ==
    Loaded =>
        \A i \in DOMAIN puzzles : \A j \in DOMAIN puzzles :
            i < j =>
                LET a == puzzles[i].timestamp
                    b == puzzles[j].timestamp
                IN  /\ (a > 0 /\ b > 0) => a >= b
                    /\ ~(a <= 0 /\ b > 0)

\* C4: an accepted move of the user is classified correct exactly when
\* source + target + promotion letter is solution[0], and a promotion is
\* always to the queen.
C4_ClassifiedByUci ==
    [][AcceptedDrop =>
        LET m == LastMove(game')
        IN  /\ (solutionMove'.kind = "correct") <=>
                    (m.from \o m.to \o m.promotion = FirstSolution(ActivePuzzle))
            /\ solutionMove'.kind \in {"correct", "incorrect"}
            /\ m.promotion \in {NoPromo, <<"q">>}]_vars

\* e7-e8 is dropped on the puzzle whose solution is e7e8r: promoted to the
\* queen and classified incorrect
C4_Witness ==
    /\ lastReturn = "dropped"
    /\ FirstSolution(ActivePuzzle) = Uci(Sq("e", 7), Sq("e", 8), <<"r">>)
    /\ LastMove(game).from = Sq("e", 7)
    /\ LastMove(game).promotion = <<"q">>
    /\ solutionMove.kind = "incorrect"

\* C5: when the revert callback of an incorrect move fires, the engine and
\* the board are at the position before that move.
C5_RevertRestores ==
    [][RevertTimer =>
        /\ GameFen(game') = Head(timers).before
        /\ board'.position = Head(timers).before.board]_vars

\* C6: a move of the user classified correct stays in the engine's history
\* until another puzzle is displayed.
C6_CorrectStaysApplied ==
    [][~TryAnother =>
        \A i \in DOMAIN game.hist :
            game.hist[i].by = "correct" =>
                i \in DOMAIN game'.hist /\ game'.hist[i] = game.hist[i]]_vars

\* C7: from displayPuzzle until the active puzzle's own transition to
\* AwaitingUserMove the board is not draggable and no move of the user is
\* applied to the engine.
C7_NoInputBeforeUserTurn ==
    /\ [](BeforeUserTurn => ~board.draggable)
    /\ [][BeforeUserTurn => ~AcceptedDrop]_vars

\* C8: a callback scheduled for a previously displayed puzzle changes neither
\* the engine nor the board (position, draggability).
C8_NoStaleCallback ==
    [][((BlunderTimer \/ AwaitTimer) /\ ~Head(timers).own) =>
        (game' = game /\ board' = board)]_vars

\* C9: a refused drag or a drop the engine rejects changes nothing and
\* schedules nothing; a move is only applied when it is legal in the engine's
\* position and the game is not over.
C9_RejectedMoveChangesNothing ==
    [][/\ lastReturn' \in {"snapback", "false"} =>
            UNCHANGED <<puzzles, currentPuzzleIndex, game, board,
                        solutionVisible, solutionMove, highlight,
                        turnIndicator, timers, snapPending>>
       /\ lastReturn' = "dropped" =>
            /\ ~GameOver(game)
            /\ LastMove(game') \in GenerateMoves(game.pos)
            /\ game'.pos = MakeMove(game.pos, LastMove(game'))
            /\ Len(game'.hist) = Len(game.hist) + 1]_vars

\* a drop was snapped back while the panel was showing and a revert was pending
C9_Witness ==
    /\ lastReturn = "snapback"
    /\ solutionVisible
    /\ highlight # {}
    /\ \E i \in DOMAIN timers : timers[i].kind = "revert"

\* C10: every move of the user that is applied is a move of the solver's
\* colour.
C10_OnlySolverColourMoves ==
    [][AcceptedDrop => LastMove(game').color = SolverColor(ActivePuzzle)]_vars

\* a move classified correct, or the solution played by 'show solution', is
\* in the engine's history
Solved ==
    \E i \in DOMAIN game.hist : game.hist[i].by \in {"correct", "solution"}

\* C11: once the puzzle is solved (a move of the user was classified
\* correct, or 'show solution' played the solution) no move of the user is
\* accepted, and the engine position and the text of the solution panel stay
\* as they are until 'try another' displays a puzzle.
C11_SolvedIsTerminal ==
    [][(Solved /\ ~TryAnother) =>
        /\ ~AcceptedDrop
        /\ game'.pos = game.pos
        /\ solutionMove' = solutionMove]_vars

\* C12: when an accepted move of the user is classified incorrect, the
\* answer the panel shows is the SAN the engine generates for solution[0] in
\* the position before the user's move.
C12_AnswerShownAsSan ==
    [][(AcceptedDrop /\ solutionMove'.kind = "incorrect") =>
        LET uci == FirstSolution(ActivePuzzle)
            m == FindMove(game, Substring(uci, 0, 2), Substring(uci, 2, 4),
                          UciPromotion(uci))
        IN  m # NullMove => solutionMove'.answer = m.san]_vars

\* C13: 'try another' on a list of one puzzle displays index 0 again; on a
\* list of n > 1 puzzles it displays an index of 0..n-1 that is not the index
\* displayed before.
C13_AnotherPuzzleChosen ==
    [][TryAnother =>
        /\ Len(puzzles) = 1 => currentPuzzleIndex' = 0
        /\ Len(puzzles) > 1 =>
              /\ currentPuzzleIndex' \in 0..(Len(puzzles) - 1)
              /\ currentPuzzleIndex' # currentPuzzleIndex]_vars

\* the third puzzle of a list is displayed while a callback of the display of
\* the second is pending
C13_Witness ==
    /\ Len(puzzles) > 2
    /\ currentPuzzleIndex = 2
    /\ puzzles[2] # puzzles[3]
    /\ \E i \in DOMAIN timers :
          ~timers[i].own /\ timers[i].puzzle = puzzles[2]

UciInputs ==
    {Undefined, <<>>}
        \cup {Uci(ft[1], ft[2], promo) :
                ft \in {<<Sq("e", 7), Sq("e", 8)>>, <<Sq("e", 8), Sq("e", 7)>>,
                        <<Sq("h", 3), Sq("h", 4)>>, <<Sq("h", 6), Sq("h", 5)>>,
                        <<Sq("h", 7), Sq("h", 5)>>},
                promo \in {NoPromo, <<"q">>}}

\* C15: uciToSan leaves the engine as it found it: position and move history
\* after the call are those before it, for every string it is given.
C15_UciToSanLeavesEngine ==
    \A uci \in UciInputs : AfterUciToSan(game, uci) = game

\* uciToSan has converted a legal move on an engine with a history: the
\* panel holds the SAN of the solution while the blunder is in the history
C15_Witness ==
    /\ game.hist # <<>>
    /\ solutionMove.kind = "text"
    /\ solutionMove.answer # FirstSolution(ActivePuzzle)
    /\ solutionMove.answer = UciToSan(game, FirstSolution(ActivePuzzle))

\* C16: 'show solution' with no active puzzle, or on a puzzle whose solution
\* array is empty, changes nothing: the panel stays hidden if it was, engine,
\* board, highlights and panel text are as before.
C16_ShowSolutionWithoutSolution ==
    [][((Len(puzzles) = 0 \/ ActivePuzzle.solution = <<>>) /\ ShowSolution) =>
        UNCHANGED <<solutionVisible, solutionMove, game, board, highlight,
                    turnIndicator, timers, puzzles, currentPuzzleIndex>>]_vars

\* 'show solution' was clicked on a displayed puzzle without a solution, and
\* returned early with the panel hidden
C16_Witness ==
    /\ Displayed
    /\ ActivePuzzle.solution = <<>>
    /\ lastReturn = "ignored"
    /\ ~solutionVisible

\* C17: when 'show solution' is clicked on a puzzle with a solution, the
\* panel is revealed with the first solution move applied to the engine and
\* shown on the board, and with the 'correct' annotation of that move.
C17_ShownSolutionIsPlayed ==
    [][(ShowSolution /\ ~NoSolution(puzzles, currentPuzzleIndex)
            /\ solutionVisible') =>
        LET uci == FirstSolution(ActivePuzzle)
            m == LastMove(game')
        IN  /\ Len(game'.hist) = Len(game.hist) + 1
            /\ m.from = Substring(uci, 0, 2)
            /\ m.to = Substring(uci, 2, 4)
            /\ board'.position = game'.pos.board
            /\ solutionMove' = CorrectText(m.san)]_vars

\* C18: displayPuzzle(index) makes the nearest index of 0..length-1 the
\* displayed one, for every integer index, and changes nothing when the list
\* is empty; the displayed index is an index of the list whenever the list is
\* not empty.
C18_IndexClamped ==
    /\ [](Len(puzzles) > 0 => currentPuzzleIndex \in 0..(Len(puzzles) - 1))
    /\ [][\A index \in IndexInputs :
            DisplayAt(index) =>
                IF Len(puzzles) = 0
                THEN UNCHANGED <<puzzles, currentPuzzleIndex, game, board,
                                 solutionVisible, solutionMove, highlight,
                                 turnIndicator, timers>>
                ELSE currentPuzzleIndex' =
                        IF index < 0 THEN 0
                        ELSE IF index > Len(puzzles) - 1 THEN Len(puzzles) - 1
                        ELSE index]_vars

\* the last puzzle of a list was displayed by a call that came after the
\* display of the first
C18_Witness ==
    /\ Len(puzzles) > 1
    /\ currentPuzzleIndex = Len(puzzles) - 1
    /\ puzzles[1] # puzzles[Len(puzzles)]
    /\ \E i \in DOMAIN timers : ~timers[i].own /\ timers[i].puzzle = puzzles[1]

\* AwaitingUserMove: no callback of the active puzzle's displayPuzzle call is
\* pending and the board can be dragged on
AwaitingUserMove == Displayed /\ ~BeforeUserTurn /\ board.draggable

\* C19: when timers fire, every displayPuzzle call is followed by
\* AwaitingUserMove, unless 'try another' keeps displaying puzzles for ever;
\* this includes the call whose recorded blunder cannot be played.
C19_UserTurnReached ==
    ([]<><<TryAnother>>_vars) \/ (BeforeUserTurn ~> AwaitingUserMove)

\* the blunder of the displayed puzzle could not be played, and the board is
\* the user's on the position displayPuzzle started from
C19_Witness ==
    /\ AwaitingUserMove
    /\ ActivePuzzle.pre_blunder_fen = NoFen
    /\ timers = <<>>
    /\ game.hist = <<>>
    /\ board.position = ActivePuzzle.fen.board

\* the fetch failed, or no puzzle of the collection passes the filter
NothingToShow ==
    \/ ~response.ok
    \/ \A i \in DOMAIN response.puzzles :
          response.puzzles[i].eval_change < 500

\* C20: after a failed fetch, or a load that leaves the list empty, the page
\* stays as it is: no puzzle is displayed, no callback is scheduled, and
\* clicks on 'show solution' and 'try another' change nothing.
C20_NothingToShowIsTerminal ==
    /\ [](NothingToShow =>
            /\ loadState \in {"loading", "error", "empty"}
            /\ ~Displayed
            /\ puzzles = <<>>
            /\ timers = <<>>)
    /\ [][(NothingToShow /\ loadState # "loading") =>
            UNCHANGED <<loadState, puzzles, currentPuzzleIndex, game, board,
                        solutionVisible, solutionMove, highlight,
                        turnIndicator, timers, snapPending>>]_vars

\* a click was ignored on the page of a collection the filter left empty
C20_Witness ==
    /\ loadState = "empty"
    /\ response.puzzles # <<>>
    /\ lastReturn = "ignored"

---------------------------------------------------------------------------
(* C21 : a response that is not a success *)

\* the page as the script finds it, the fetch settling with one of rs
PageLoad(rs) ==
    /\ response \in rs
    /\ loadState = "loading"
    /\ puzzles = <<>>
    /\ currentPuzzleIndex = 0
    /\ game = NullGame
    /\ board = NullBoard
    /\ solutionVisible = FALSE
    /\ solutionMove = InitialText
    /\ highlight = {}
    /\ turnIndicator = "White"
    /\ timers = <<>>
    /\ snapPending = FALSE
    /\ lastReturn = "none"

\* the responses loadPuzzles is run on under each status: a body that is not
\* JSON, and every collection of the load catalogue
InitFetch ==
    /\ PageLoad({[r EXCEPT !.status = st] :
                    r \in {FetchFailed} \cup LoadResponses,
                    st \in {200, 404, 500}})
    /\ NoDialog

SpecFetch == InitFetch /\ [][LoadPuzzles]_vars

\* C21: once a fetch that completed with a status outside 200..299 has
\* settled, the board container shows the error message and no puzzle is
\* displayed, whatever the body holds
C21_FailedStatusShowsError ==
    (loadState # "loading" /\ response.status \notin 200..299) =>
        loadState = "error" /\ ~Displayed

---------------------------------------------------------------------------
(* C22 : the difficulty label *)

\* String(n) of an integer
RECURSIVE Decimal(_)
Decimal(n) ==
    LET digits == <<"0", "1", "2", "3", "4", "5", "6", "7", "8", "9">>
    IN  IF n < 0 THEN "-" \o Decimal(0 - n)
        ELSE IF n < 10 THEN digits[n + 1]
        ELSE Decimal(n \div 10) \o digits[(n % 10) + 1]

\* the property key a value is looked up under
ToPropertyKey(d) ==
    CASE d.type = "number" -> Decimal(d.n)
      [] d.type = "string" -> d.s
      [] OTHER -> "undefined"

\* the difficultyMap literal: its own properties
DifficultyMap ==
    [key \in {"1", "2", "3", "4", "5"} |->
        CASE key = "1" -> "Very Easy"
          [] key = "2" -> "Easy"
          [] key = "3" -> "Intermediate"
          [] key = "4" -> "Challenging"
          [] key = "5" -> "Advanced"]

\* what the literal inherits from Object.prototype, each of them truthy
ObjectPrototypeKeys ==
    {"constructor", "toString", "toLocaleString", "valueOf", "hasOwnProperty",
     "isPrototypeOf", "propertyIsEnumerable", "__proto__"}

\* the text an inherited property leaves in an element's textContent
InheritedText(key) ==
    CASE key = "__proto__" -> "[object Object]"
      [] key = "constructor" -> "function Object() { [native code] }"
      [] OTHER -> "function " \o key \o "() { [native code] }"

\* difficultyMap[difficulty] || "Intermediate", as text
DifficultyLabel(d) ==
    LET key == ToPropertyKey(d)
    IN  IF key \in DOMAIN DifficultyMap THEN DifficultyMap[key]
        ELSE IF key \in ObjectPrototypeKeys THEN InheritedText(key)
        ELSE "Intermediate"

\* the text of #puzzle-difficulty, written by displayPuzzle only
PuzzleDifficultyText == DifficultyLabel(ActivePuzzle.difficulty)

WithDifficulty(p, d) == ("difficulty" :> d) @@ p

\* the values of the difficulty key the label is computed for
DifficultyInputs ==
    {JsMissing} \cup {JsNumber(n) : n \in (0 - 1)..6}
    \cup {JsString(s) : s \in {"", "hard", "constructor", "__proto__"}}

\* collections of one or two puzzles, each with one of these difficulties
InitLabel ==
    /\ PageLoad({FetchOk(ps) :
            ps \in SeqsUpTo({WithDifficulty(PuzzleE, d) :
                                d \in DifficultyInputs}, 2)})
    /\ NoDialog

SpecLabel == InitLabel /\ [][NextAnother]_vars

\* C22: the difficulty label of the displayed puzzle is "Very Easy", "Easy",
\* "Intermediate", "Challenging", "Advanced" for the difficulties 1 to 5 and
\* "Intermediate" for every other value of the key, a missing one included
C22_DifficultyLabel ==
    Displayed =>
        LET d == ActivePuzzle.difficulty
        IN  PuzzleDifficultyText =
                IF d.type = "number" /\ d.n \in 1..5
                THEN <<"Very Easy", "Easy", "Intermediate", "Challenging",
                       "Advanced">>[d.n]
                ELSE "Intermediate"

---------------------------------------------------------------------------
(* C23 : the replay of the blunder *)

\* two pawns, ...h6 played: blundered_move is right, blundered_move_uci names
\* a move that is not legal in the pre-blunder position; h5 is the solution
PuzzleG ==
    Puzzle("G", PuzzleE.fen, BlockedFen, Sq("h", 6),
           Uci(Sq("h", 7), Sq("h", 4), NoPromo), 560,
           <<Uci(Sq("h", 4), Sq("h", 5), NoPromo)>>, 1)

\* the widget on this puzzle and on the one with nothing as its solution
InitReplay ==
    /\ PageLoad({FetchOk(<<PuzzleG>>), FetchOk(<<PuzzleE>>),
                 FetchOk(<<PuzzleG, PuzzleE>>)})
    /\ NoDialog

SpecReplay == InitReplay /\ [][Next]_vars

\* C23: when the first callback of displayPuzzle runs for a puzzle whose
\* blundered_move_uci is present but not legal while its blundered_move is
\* legal in algebraic notation, the blunder is still made, by the algebraic
\* notation, and the animated path is taken (the second callback scheduled)
C23_BlunderFallsBackToSan ==
    [][(/\ Due(timers)
        /\ Head(timers).kind = "blunder"
        /\ Head(timers).puzzle.blundered_move_uci # <<>>
        /\ FindMove(game, Substring(Head(timers).puzzle.blundered_move_uci, 0, 2),
                    Substring(Head(timers).puzzle.blundered_move_uci, 2, 4),
                    UciPromotion(Head(timers).puzzle.blundered_move_uci)) = NullMove
        /\ FindSan(game, Head(timers).puzzle.blundered_move) # NullMove
        /\ BlunderTimer)
       => /\ game' = Played(game, FindSan(game, Head(timers).puzzle.blundered_move),
                            "blunder")
          /\ \E i \in DOMAIN timers' : timers'[i].kind = "await" /\ timers'[i].own]_vars

---------------------------------------------------------------------------
(* C24 : the solution panel after displayPuzzle *)

\* C24: displayPuzzle leaves the solution panel hidden, and the panel is
\* revealed only by a step in which onDrop accepted a move of the user or
\* the 'show solution' handler ran: no timer callback, of the displayed
\* puzzle or of an earlier one, reveals it.  (A step in which displayPuzzle
\* ran is one that adds a first callback: nothing else schedules one.)
C24_PanelHiddenUntilAsked ==
    [][/\ (/\ Len(timers') = Len(timers) + 1
           /\ timers'[Len(timers')].kind = "blunder") => ~solutionVisible'
       /\ (solutionVisible' /\ ~solutionVisible) =>
              (AcceptedDrop \/ ShowSolution)]_vars

\* a callback scheduled on an earlier puzzle took the blunder of the
\* displayed one back and the second callback ran, the panel still hidden
C24_Witness ==
    /\ Displayed
    /\ ~solutionVisible
    /\ ~BeforeUserTurn
    /\ ActivePuzzle.pre_blunder_fen # NoFen
    /\ game.hist = <<>>
    /\ solutionMove.kind # "initial"

---------------------------------------------------------------------------
(* C25 : 'show solution' twice *)

---------------------------------------------------------------------------
(* C26 : what the revert callback takes back *)

\* C26: the callback onDrop schedules never takes back the blunder: when the
\* last move of the engine is the replayed blunder of the displayed puzzle,
\* no revert callback (of this puzzle or of one displayed before) runs its
\* undo, so the engine does not return to the pre-blunder position
C26_RevertNeverUndoesBlunder ==
    [][(/\ Due(timers)
        /\ Head(timers).kind = "revert"
        /\ game.hist # <<>>
        /\ game.hist[Len(game.hist)].by = "blunder")
       => ~RevertTimer]_vars

---------------------------------------------------------------------------
(* C27 : board and engine *)

\* C27: for a displayed puzzle whose fen is its pre_blunder_fen with the
\* blunder played, whenever the board is draggable, no dropped piece is
\* still snapping and no revert callback is pending, the board shows the
\* position of the engine
C27_BoardShowsEngine ==
    (/\ Displayed
     /\ board.draggable
     /\ ~snapPending
     /\ ActivePuzzle.pre_blunder_fen # NoFen
     /\ BlunderMove(NewChess(ActivePuzzle.pre_blunder_fen), ActivePuzzle) # NullMove
     /\ ActivePuzzle.fen =
            MakeMove(ActivePuzzle.pre_blunder_fen,
                     BlunderMove(NewChess(ActivePuzzle.pre_blunder_fen), ActivePuzzle))
     /\ \A i \in DOMAIN timers : timers[i].kind # "revert")
    => board.position = game.pos.board

---------------------------------------------------------------------------
(* C28 : the turn indicator *)

\* C28: between handlers and callbacks the turn indicator names the side the
\* engine has to move, once displayPuzzle has created the engine
C28_TurnIndicatorFollowsEngine ==
    game # NullGame =>
        turnIndicator = IF game.pos.turn = "w" THEN "White" ELSE "Black"

\* a revert callback has given the move back after a move of the user, the
\* indicator having gone to the other side and returned
C28_Witness ==
    /\ Displayed
    /\ solutionVisible
    /\ solutionMove.kind = "incorrect"
    /\ Len(game.hist) = 1
    /\ game.hist[1].by = "blunder"
    /\ turnIndicator = "White"

---------------------------------------------------------------------------
(* C29, C30 : the React dialog *)


NextReact ==
    \/ FetchPuzzle
    \/ FetchResolved
    \/ FetchRejected
    \/ AnimationTimeout
    \/ GameInitializationTimeout
    \/ PieceDrop
    \/ FlashTimeout

\* the dialog on a page whose widget stays as it was loaded
InitReact ==
    /\ PageLoad({FetchFailed})
    /\ hook = HookInit
    /\ component = ComponentInit

SpecReact == InitReact /\ [][NextReact]_vars

\* C29: usePuzzleData never holds a puzzle and an error at once, however the
\* fetchPuzzle calls overlap and settle
C29_PuzzleOrError == ~(hook.puzzle # NullPuzzleData /\ hook.error # NoError)

\* C30: every pending animation or game-initialisation callback is one the
\* next cleanup cancels and was scheduled for the FENs of the supplied puzzle;
\* a game instance was constructed from the second FEN of the supplied
\* puzzle; and pieces are draggable only when isAnimatingBlunder is false and
\* there is a game instance
C30_TimeoutsOfSuppliedPuzzle ==
    /\ \A t \in component.timeouts :
          /\ t.current
          /\ hook.puzzle # NullPuzzleData
          /\ Deps(t.data) = Deps(hook.puzzle)
    /\ component.game # NullGame =>
          /\ hook.puzzle # NullPuzzleData
          /\ component.gameFrom = hook.puzzle.fen_after_user_blunder
    /\ ArePiecesDraggable(component) =>
          (~component.isAnimatingBlunder /\ component.game # NullGame)

\* a cleanup cancelled a pending callback when another puzzle was supplied,
\* and the game instance of that puzzle has been constructed since
C30_Witness ==
    /\ component.cleared
    /\ hook.puzzle # NullPuzzleData
    /\ component.game # NullGame
    /\ component.timeouts = {}

====
